---- MODULE Spec2Model ----
(***************************************************************************)
(* Model of currency_convert.py: the naive CSV reader (a regex tokenizer), *)
(* the naive CSV writer, convert_currency and the main loop.               *)
(*                                                                         *)
(* A Python string is modelled as a sequence of one-character strings.     *)
(***************************************************************************)
EXTENDS Integers, Sequences, FiniteSets, TLC

(***************************************************************************)
(* Bounds                                                                  *)
(***************************************************************************)
MaxLineLen == 4      \* longest raw line handed to the tokenizer
MaxFields == 2       \* most fields of a record handed to writerow
MaxRecordChars == 3  \* most characters of such a record, all fields together
MaxRows == 2         \* most lines of the input file of a run
MaxRunFields == 2    \* most comma-separated pieces of a line of that file

(***************************************************************************)
(* Characters                                                              *)
(***************************************************************************)
\* U+202F, the mon_thousands_sep of fr_FR, as one character
NNBSP == "NNBSP"
DQ == "\""
SQ == "'"
BS == "\\"
COMMA == ","
NL == "\n"

\* the characters of tokenizer lines
Char == {"a", "s", "1", " ", COMMA, DQ, SQ, BS}
\* the characters of fields handed to writerow
FieldChar == {"a", "s", " ", COMMA, DQ, BS, NL}
\* the comma-separated pieces of the lines of the input file of a run
RunPieces == {<<"2", "5">>, <<"a">>}

\* all sequences over S of length at most n
SeqsUpTo(S, n) == UNION {[1..k -> S] : k \in 0..n}

(***************************************************************************)
(* str.rstrip() and the character class \s                                 *)
(***************************************************************************)
IsSpace(c) == c \in {" ", NL, "\t", NNBSP}

RECURSIVE rstrip(_)
rstrip(str) ==
    IF str # <<>> /\ IsSpace(str[Len(str)])
    THEN rstrip(SubSeq(str, 1, Len(str) - 1))
    ELSE str

RECURSIVE lstrip(_)
lstrip(str) ==
    IF str # <<>> /\ IsSpace(str[1]) THEN lstrip(Tail(str)) ELSE str

\* The regular expression of NaiveCSV.reader,
\*     s*([^,"']+?|"(?:[^"\\]|\\.)*"|'(?:[^'\\]|\\.)*)\s*(?:,|$)
\* matched as a backtracking matcher matches it.  Positions are 1-based; a
\* match is [gs, ge, end]: the captured group is line[gs..ge] and the whole
\* match ends just before position end.
NoMatch == [gs |-> 0, ge |-> 0, end |-> 0]

\* \s* (greedy): the position after the longest run of whitespace from e
RECURSIVE SkipSpace(_, _)
SkipSpace(line, e) ==
    IF e <= Len(line) /\ IsSpace(line[e]) THEN SkipSpace(line, e + 1) ELSE e

\* \s*(?:,|$) from position e: the position after the match, 0 when it fails.
\* Giving back whitespace never helps: the character after a shorter run is
\* a whitespace character, neither a comma nor the end.
MatchTail(line, e) ==
    LET q == SkipSpace(line, e)
    IN  IF q > Len(line) THEN q
        ELSE IF line[q] = COMMA THEN q + 1
        ELSE 0

\* variant: [^,"']*? in place of [^,"']+?, the run may be empty
RECURSIVE Alt1Star(_, _, _)
Alt1Star(line, g, n) ==
    IF n = 1 /\ MatchTail(line, g) # 0
    THEN [gs |-> g, ge |-> g - 1, end |-> MatchTail(line, g)]
    ELSE IF g + n - 1 > Len(line) \/ line[g + n - 1] \in {COMMA, DQ, SQ}
    THEN NoMatch
    ELSE IF MatchTail(line, g + n) # 0
         THEN [gs |-> g, ge |-> g + n - 1, end |-> MatchTail(line, g + n)]
         ELSE Alt1Star(line, g, n + 1)

\* [^,"']+? (lazy) from g: the shortest run of n or more characters after
\* which the tail matches
RECURSIVE Alt1(_, _, _)
Alt1(line, g, n) ==
    IF g + n - 1 > Len(line) \/ line[g + n - 1] \in {COMMA, DQ, SQ}
    THEN NoMatch
    ELSE IF MatchTail(line, g + n) # 0
         THEN [gs |-> g, ge |-> g + n - 1, end |-> MatchTail(line, g + n)]
         ELSE Alt1(line, g, n + 1)

\* (?:[^q\\]|\\.)* (greedy) from position p: the position where the loop
\* stops when it takes every iteration it can
RECURSIVE QuoteScan(_, _, _)
QuoteScan(line, p, q) ==
    IF p > Len(line) \/ line[p] = q THEN p
    ELSE IF line[p] = BS
         THEN IF p + 1 <= Len(line) THEN QuoteScan(line, p + 2, q) ELSE p
         ELSE QuoteScan(line, p + 1, q)

\* "(?:[^"\\]|\\.)*" : the closing quote can only match where the loop stops
Alt2(line, g) ==
    IF g > Len(line) \/ line[g] # DQ THEN NoMatch
    ELSE LET n == QuoteScan(line, g + 1, DQ)
         IN  IF n <= Len(line) /\ line[n] = DQ /\ MatchTail(line, n + 1) # 0
             THEN [gs |-> g, ge |-> n, end |-> MatchTail(line, n + 1)]
             ELSE NoMatch

\* the loop of the third alternative from p, giving iterations back one at
\* a time: the end of the longest prefix of iterations after which the tail
\* matches, 0 if there is none
RECURSIVE Alt3Scan(_, _)
Alt3Scan(line, p) ==
    LET next == IF p > Len(line) \/ line[p] = SQ THEN 0
                ELSE IF line[p] = BS
                     THEN IF p + 1 <= Len(line) THEN p + 2 ELSE 0
                     ELSE p + 1
        deeper == IF next = 0 THEN 0 ELSE Alt3Scan(line, next)
    IN  IF deeper # 0 THEN deeper
        ELSE IF MatchTail(line, p) # 0 THEN p
        ELSE 0

\* '(?:[^'\\]|\\.)* : the pattern has no closing single quote
Alt3(line, g) ==
    IF g > Len(line) \/ line[g] # SQ THEN NoMatch
    ELSE LET e == Alt3Scan(line, g + 1)
         IN  IF e = 0 THEN NoMatch
             ELSE [gs |-> g, ge |-> e - 1, end |-> MatchTail(line, e)]

\* the group: the three alternatives in order
Group(line, g) ==
    IF Alt1(line, g, 1) # NoMatch THEN Alt1(line, g, 1)
    ELSE IF Alt2(line, g) # NoMatch THEN Alt2(line, g)
    ELSE Alt3(line, g)

\* the longest run of the letter s from p
RECURSIVE SRun(_, _)
SRun(line, p) ==
    IF p <= Len(line) /\ line[p] = "s" THEN 1 + SRun(line, p + 1) ELSE 0

\* s* (greedy, a literal letter s) followed by the rest of the pattern:
\* j letters are taken, then j - 1, ... until the rest matches
RECURSIVE MatchFrom(_, _, _)
MatchFrom(line, p, j) ==
    IF Group(line, p + j) # NoMatch THEN Group(line, p + j)
    ELSE IF j > 0 THEN MatchFrom(line, p, j - 1)
    ELSE NoMatch

MatchAt(line, p) == MatchFrom(line, p, SRun(line, p))

\* r.findall(line): the captured group of every non-overlapping match, left
\* to right.  No match is empty, so the scan resumes at the end of a match.
RECURSIVE findallFrom(_, _)
findallFrom(line, pos) ==
    IF pos > Len(line) THEN <<>>
    ELSE LET m == MatchAt(line, pos)
         IN  IF m = NoMatch THEN findallFrom(line, pos + 1)
             ELSE <<SubSeq(line, m.gs, m.ge)>> \o findallFrom(line, m.end)

findall(line) == findallFrom(line, 1)

\* the body of the loop of NaiveCSV.reader for one line
tokenize(line) == findall(rstrip(line))

(***************************************************************************)
(* CSVWriter.writerow                                                      *)
(***************************************************************************)
\* variant: a quote character in the item also triggers the quoting
HasCommaOrQuote(item) == \E k \in 1..Len(item) : item[k] \in {COMMA, DQ, SQ}

\* re.search(',', item)
HasComma(item) == \E k \in 1..Len(item) : item[k] = COMMA

\* the list `output` built by the loop of writerow
RECURSIVE quoted(_)
quoted(row) ==
    IF row = <<>> THEN <<>>
    ELSE <<IF HasComma(Head(row)) THEN <<DQ>> \o Head(row) \o <<DQ>>
           ELSE Head(row)>> \o quoted(Tail(row))

\* ",".join(output)
RECURSIVE join(_)
join(output) ==
    IF output = <<>> THEN <<>>
    ELSE IF Len(output) = 1 THEN Head(output)
    ELSE Head(output) \o <<COMMA>> \o join(Tail(output))

\* the string writerow hands to output_file.write
writerow(row) == join(quoted(row)) \o <<NL>>

(***************************************************************************)
(* Iterating over a text file: the text is cut after every newline         *)
(***************************************************************************)
RECURSIVE flatten(_)
flatten(strs) == IF strs = <<>> THEN <<>> ELSE Head(strs) \o flatten(Tail(strs))

RECURSIVE readlines(_, _)
readlines(text, cur) ==
    IF text = <<>> THEN (IF cur = <<>> THEN <<>> ELSE <<cur>>)
    ELSE IF Head(text) = NL
         THEN <<cur \o <<NL>>>> \o readlines(Tail(text), <<>>)
         ELSE readlines(Tail(text), cur \o <<Head(text)>>)

(***************************************************************************)
(* float(field) and locale.currency under fr_FR.  Amounts are counted in   *)
(* hundredths.                                                             *)
(***************************************************************************)
Digit == <<"0", "1", "2", "3", "4", "5", "6", "7", "8", "9">>
IsDigit(c) == \E d \in 1..10 : Digit[d] = c
DigitVal(c) == (CHOOSE d \in 1..10 : Digit[d] = c) - 1

strip(str) == lstrip(rstrip(str))

\* float(str) succeeds; over the characters of the model (no sign, point,
\* exponent or underscore) these are the whitespace-padded digit strings
IsFloat(str) ==
    /\ strip(str) # <<>>
    /\ \A k \in 1..Len(strip(str)) : IsDigit(strip(str)[k])

RECURSIVE DigitsVal(_)
DigitsVal(ds) ==
    IF ds = <<>> THEN 0
    ELSE 10 * DigitsVal(SubSeq(ds, 1, Len(ds) - 1)) + DigitVal(ds[Len(ds)])

\* float(str), in hundredths
float(str) == 100 * DigitsVal(strip(str))

RECURSIVE Digits(_)
Digits(n) ==
    IF n < 10 THEN <<Digit[n + 1]>> ELSE Digits(n \div 10) \o <<Digit[(n % 10) + 1]>>

\* grouping=True: mon_thousands_sep between groups of three digits
RECURSIVE Grouped(_)
Grouped(ds) ==
    IF Len(ds) <= 3 THEN ds
    ELSE Grouped(SubSeq(ds, 1, Len(ds) - 3)) \o <<NNBSP>>
         \o SubSeq(ds, Len(ds) - 2, Len(ds))

\* locale.currency(v, symbol=False, grouping=True, international=True) with
\* LC_MONETARY fr_FR: two decimals after a decimal comma
currency(cents) ==
    Grouped(Digits(cents \div 100)) \o <<COMMA>>
    \o <<Digit[((cents % 100) \div 10) + 1], Digit[(cents % 10) + 1]>>

\* the entries convert_currency puts into locale._override_localeconv
CsPrecedes == {"p_cs_precedes", "n_cs_precedes"}

\* the value convert_currency returns; value and the result of the product
\* are in hundredths, multiplier in hundredths too
convert_currency(value, mult) == currency((value * mult) \div 100)

(***************************************************************************)
(* Python indexing row[idx] of a list of n elements                        *)
(***************************************************************************)
IndexOk(n, idx) == -n <= idx /\ idx < n
\* the 1-based position idx denotes
IndexPos(n, idx) == IF idx >= 0 THEN idx + 1 ELSE n + idx + 1

(***************************************************************************)
(* State                                                                   *)
(***************************************************************************)
VARIABLES
    input_file,    \* args.i: the lines of the input, in order
    field_arg,     \* args.field
    multiplier,    \* args.multiplier, in hundredths
    pc,            \* where main is
    nread,         \* lines the reader has taken from input_file
    csv_data,      \* the rows the reader has built / main iterates over
    i,             \* the row the loop of main is at (0 before the first)
    field,         \* the local `field` of main
    output_file,   \* args.o: the strings written, in order
    err,           \* the exception that ended the run
    nconverted,    \* calls of convert_currency that returned
    lc_ctype,      \* the LC_CTYPE locale of the process
    lc_monetary,   \* the LC_MONETARY locale of the process
    override,      \* the keys of locale._override_localeconv
    rec            \* the record handed to the writer in a round trip

vars == <<input_file, field_arg, multiplier, pc, nread, csv_data, i, field,
          output_file, err, nconverted, lc_ctype, lc_monetary, override, rec>>

NoField == <<>>
Locales == {"C", "en_US"}
FieldArgs == (-1)..(MaxRunFields + 1)
Multipliers == {100, 150}
RunLines == {join(ps) : ps \in SeqsUpTo(RunPieces, MaxRunFields)}

\* line 154-164: arguments parsed, reader about to run.  Python sets LC_CTYPE
\* from the environment at start-up and leaves LC_MONETARY at "C".
Init ==
    /\ input_file \in SeqsUpTo(RunLines, MaxRows)
    /\ field_arg \in FieldArgs
    /\ multiplier \in Multipliers
    /\ lc_ctype \in Locales
    /\ lc_monetary = "C"
    /\ override = {}
    /\ pc = "read"
    /\ nread = 0
    /\ csv_data = <<>>
    /\ i = 0
    /\ field = NoField
    /\ output_file = <<>>
    /\ err = "none"
    /\ nconverted = 0
    /\ rec = <<>>

\* NaiveCSV.reader, one iteration of `for line in input_file`
ReadLine ==
    /\ pc = "read"
    /\ nread < Len(input_file)
    /\ csv_data' = Append(csv_data, tokenize(input_file[nread + 1]))
    /\ nread' = nread + 1
    /\ UNCHANGED <<input_file, field_arg, multiplier, pc, i, field,
                   output_file, err, nconverted, lc_ctype, lc_monetary,
                   override, rec>>

\* variant: `return csv_data` indented into the loop, the reader returns
\* after the first line
ReaderReturnsInLoop == nread = 1 \/ nread = Len(input_file)

\* the reader may return
ReaderMayReturn == nread = Len(input_file)

\* NaiveCSV.reader: input exhausted, `return csv_data`
ReaderReturn ==
    /\ pc = "read"
    /\ ReaderMayReturn
    /\ pc' = "loop"
    /\ i' = 0
    /\ UNCHANGED <<input_file, field_arg, multiplier, nread, csv_data, field,
                   output_file, err, nconverted, lc_ctype, lc_monetary,
                   override, rec>>

\* main: `for row in csvreader`
NextRow ==
    /\ pc = "loop"
    /\ IF i < Len(csv_data)
       THEN i' = i + 1 /\ pc' = "select"
       ELSE i' = i /\ pc' = "done"
    /\ UNCHANGED <<input_file, field_arg, multiplier, nread, csv_data, field,
                   output_file, err, nconverted, lc_ctype, lc_monetary,
                   override, rec>>

\* variant: a missing column skips the row and the loop goes on
SelectOrSkip ==
    /\ pc = "select"
    /\ LET row == csv_data[i]
           idx == field_arg - 1
       IN  IF IndexOk(Len(row), idx)
           THEN /\ field' = row[IndexPos(Len(row), idx)]
                /\ pc' = "convert"
           ELSE /\ field' = field
                /\ pc' = "loop"
    /\ UNCHANGED <<input_file, field_arg, multiplier, nread, csv_data, i,
                   output_file, err, nconverted, lc_ctype, lc_monetary,
                   override, rec>>

\* main: `field = row[args.field-1]`
Select ==
    /\ pc = "select"
    /\ LET row == csv_data[i]
           idx == field_arg - 1
       IN  IF IndexOk(Len(row), idx)
           THEN /\ field' = row[IndexPos(Len(row), idx)]
                /\ pc' = "convert"
                /\ err' = err
           ELSE /\ field' = field
                /\ pc' = "failed"
                /\ err' = "IndexError"
    /\ UNCHANGED <<input_file, field_arg, multiplier, nread, csv_data, i,
                   output_file, nconverted, lc_ctype, lc_monetary, override,
                   rec>>

\* LC_MONETARY after convert_currency: orig_loc is locale.getlocale(), which
\* is the LC_CTYPE locale, and it is what LC_MONETARY is set to at the end
MonetaryAfter == lc_ctype

\* main: `row[args.field-1] = convert_currency(float(field), args.multiplier)`
Convert ==
    /\ pc = "convert"
    /\ LET row == csv_data[i]
           pos == IndexPos(Len(row), field_arg - 1)
       IN  IF IsFloat(field)
           THEN /\ csv_data' = [csv_data EXCEPT ![i] =
                       [row EXCEPT ![pos] =
                           convert_currency(float(field), multiplier)]]
                /\ lc_monetary' = MonetaryAfter
                /\ override' = override \cup CsPrecedes
                /\ nconverted' = nconverted + 1
                /\ pc' = "write"
                /\ err' = err
           ELSE /\ pc' = "failed"
                /\ err' = "ValueError"
                /\ UNCHANGED <<csv_data, lc_monetary, override, nconverted>>
    /\ UNCHANGED <<input_file, field_arg, multiplier, nread, i, field,
                   output_file, lc_ctype, rec>>

\* main: `csvwriter.writerow(row)`
WriteRow ==
    /\ pc = "write"
    /\ output_file' = Append(output_file, writerow(csv_data[i]))
    /\ pc' = "loop"
    /\ UNCHANGED <<input_file, field_arg, multiplier, nread, csv_data, i,
                   field, err, nconverted, lc_ctype, lc_monetary, override,
                   rec>>

Next == ReadLine \/ ReaderReturn \/ NextRow \/ Select \/ Convert \/ WriteRow

Spec == Init /\ [][Next]_vars

(***************************************************************************)
(* The tokenizer alone: the reader run on a file of one line               *)
(***************************************************************************)
InitTok ==
    /\ input_file \in {<<l>> : l \in SeqsUpTo(Char, MaxLineLen)}
    /\ field_arg = 1
    /\ multiplier = 100
    /\ lc_ctype = "C"
    /\ lc_monetary = "C"
    /\ override = {}
    /\ pc = "read"
    /\ nread = 0
    /\ csv_data = <<>>
    /\ i = 0
    /\ field = NoField
    /\ output_file = <<>>
    /\ err = "none"
    /\ nconverted = 0
    /\ rec = <<>>

NextTok == ReadLine \/ ReaderReturn

SpecTok == InitTok /\ [][NextTok]_vars

(***************************************************************************)
(* Writer then reader: a record is written with writerow and the text      *)
(* written is given to the reader as its input file                        *)
(***************************************************************************)
\* a record of one or more fields, written as its fields with a separator
\* between them; the separator is not a character of any field
SEP == "SEP"

RECURSIVE SplitSep(_, _)
SplitSep(w, cur) ==
    IF w = <<>> THEN <<cur>>
    ELSE IF Head(w) = SEP THEN <<cur>> \o SplitSep(Tail(w), <<>>)
    ELSE SplitSep(Tail(w), cur \o <<Head(w)>>)

CountOf(w, c) == Cardinality({k \in 1..Len(w) : w[k] = c})

\* the records of at most MaxFields fields and MaxRecordChars characters
Records ==
    {<<>>} \cup
    {SplitSep(w, <<>>) :
        w \in {v \in SeqsUpTo(FieldChar \cup {SEP}, MaxRecordChars + MaxFields - 1) :
                  /\ CountOf(v, SEP) <= MaxFields - 1
                  /\ Len(v) - CountOf(v, SEP) <= MaxRecordChars}}

InitCodec ==
    /\ rec \in Records
    /\ csv_data = <<rec>>
    /\ i = 1
    /\ pc = "write"
    /\ input_file = <<>>
    /\ field_arg = 1
    /\ multiplier = 100
    /\ lc_ctype = "C"
    /\ lc_monetary = "C"
    /\ override = {}
    /\ nread = 0
    /\ field = NoField
    /\ output_file = <<>>
    /\ err = "none"
    /\ nconverted = 0

\* the text written becomes the input file of a new call of the reader
\* (line 77: a fresh csv_data)
FeedBack ==
    /\ pc = "loop"
    /\ input_file = <<>>
    /\ output_file # <<>>
    /\ input_file' = readlines(flatten(output_file), <<>>)
    /\ csv_data' = <<>>
    /\ nread' = 0
    /\ i' = 0
    /\ pc' = "read"
    /\ UNCHANGED <<field_arg, multiplier, field, output_file, err, nconverted,
                   lc_ctype, lc_monetary, override, rec>>

NextCodec == WriteRow \/ FeedBack \/ ReadLine \/ ReaderReturn

SpecCodec == InitCodec /\ [][NextCodec]_vars

\* the reader has returned the rows of the text that was written
RoundTripDone == pc = "loop" /\ input_file # <<>>

(***************************************************************************)
(* Properties                                                              *)
(***************************************************************************)
Chars(str) == {str[k] : k \in 1..Len(str)}

\* C1: for every record whose fields hold no comma and no quote character,
\* the reader run on the line writerow emitted returns exactly that record.
C1_RoundTripPlain ==
    (RoundTripDone /\ \A k \in 1..Len(rec) : Chars(rec[k]) \cap {COMMA, DQ, SQ} = {})
        => csv_data = <<rec>>

\* C2: for every field f with at least one comma and no quote or backslash
\* (and no line end), writerow([f]) emits f wrapped in double quotes and the
\* reader run on that line returns the one-element record [f], quotes
\* stripped.
C2_RoundTripComma ==
    (/\ Len(rec) = 1
     /\ COMMA \in Chars(rec[1])
     /\ Chars(rec[1]) \cap {DQ, SQ, BS, NL} = {})
        => /\ output_file # <<>> =>
                output_file = << <<DQ>> \o rec[1] \o <<DQ, NL>> >>
           /\ RoundTripDone => csv_data = << <<rec[1]>> >>

\* a piece of a line that is not quoted: not empty, no comma, quote,
\* backslash or whitespace
PlainChar(c) == c \notin {COMMA, DQ, SQ, BS} /\ ~IsSpace(c)

\* str is one or more unquoted pieces separated by single commas
PlainPieces(str) ==
    /\ str # <<>>
    /\ str[1] # COMMA
    /\ str[Len(str)] # COMMA
    /\ \A k \in 1..Len(str) : PlainChar(str[k]) \/ str[k] = COMMA
    /\ \A k \in 1..(Len(str) - 1) : ~(str[k] = COMMA /\ str[k + 1] = COMMA)

CountCommas(str) == Cardinality({k \in 1..Len(str) : str[k] = COMMA})

\* line is k comma-separated fields, the one at positions a..b wrapped in
\* the quote character q with a comma inside; the fields around it are
\* unquoted pieces.  The value is k, or 0 when line is not of that form.
QuotedForm(line, a, b, q) ==
    LET before == SubSeq(line, 1, a - 1)
        inner == SubSeq(line, a + 1, b - 1)
        after == SubSeq(line, b + 1, Len(line))
    IN  IF /\ a < b
           /\ line[a] = q
           /\ line[b] = q
           /\ COMMA \in Chars(inner)
           /\ Chars(inner) \cap {DQ, SQ, BS} = {}
           /\ before # <<>> =>
                 /\ before[Len(before)] = COMMA
                 /\ PlainPieces(SubSeq(before, 1, Len(before) - 1))
           /\ after # <<>> =>
                 /\ after[1] = COMMA
                 /\ PlainPieces(Tail(after))
        THEN CountCommas(before) + 1 + CountCommas(after)
        ELSE 0

\* C3: a line of k comma-separated fields, one of them wrapped in a pair of
\* double quotes or a pair of single quotes with commas inside, is
\* tokenized into exactly k fields.
C3_QuotedCommaDoesNotSplit ==
    pc = "loop" =>
        \A a, b \in 1..Len(input_file[1]) : \A q \in {DQ, SQ} :
            QuotedForm(input_file[1], a, b, q) # 0
                => Len(csv_data[1]) = QuotedForm(input_file[1], a, b, q)

\* str.split(",")
RECURSIVE SplitComma(_, _)
SplitComma(str, cur) ==
    IF str = <<>> THEN <<cur>>
    ELSE IF Head(str) = COMMA THEN <<cur>> \o SplitComma(Tail(str), <<>>)
    ELSE SplitComma(Tail(str), cur \o <<Head(str)>>)

\* C4: a line of non-empty unquoted pieces separated by single commas is
\* tokenized into exactly those pieces, whatever letter a piece starts with.
C4_UnquotedUnchanged ==
    (pc = "loop" /\ PlainPieces(input_file[1]))
        => csv_data[1] = SplitComma(input_file[1], <<>>)

\* the width of field k in the line: two more when it is quoted
Quotes(f) == IF COMMA \in Chars(f) THEN 2 ELSE 0
\* the position in the line where field k starts
RECURSIVE StartOf(_, _)
StartOf(r, k) ==
    IF k = 1 THEN 1
    ELSE StartOf(r, k - 1) + Len(r[k - 1]) + Quotes(r[k - 1]) + 1

\* out is the fields of r joined by single commas and followed by one
\* newline, a field wrapped in double quotes iff it holds a comma
SerializedAs(r, out) ==
    /\ Len(out) = IF r = <<>> THEN 1
                  ELSE StartOf(r, Len(r)) + Len(r[Len(r)]) + Quotes(r[Len(r)])
    /\ out[Len(out)] = NL
    /\ \A k \in 1..Len(r) :
          LET a == StartOf(r, k)
              n == Len(r[k])
          IN  /\ IF Quotes(r[k]) = 2
                 THEN /\ out[a] = DQ
                      /\ SubSeq(out, a + 1, a + n) = r[k]
                      /\ out[a + n + 1] = DQ
                 ELSE SubSeq(out, a, a + n - 1) = r[k]
              /\ k < Len(r) => out[a + n + Quotes(r[k])] = COMMA

\* C5: writerow writes exactly one string: the fields joined by single
\* commas plus one newline, a field quoted iff it contains a comma; the
\* empty record gives the bare newline.
C5_SerializerOutput ==
    output_file # <<>> =>
        /\ Len(output_file) = 1
        /\ SerializedAs(rec, output_file[1])
        /\ rec = <<>> => output_file[1] = <<NL>>

\* a record with a comma field and a comma-free field holding a quote has
\* been written
C5_Witness ==
    /\ output_file # <<>>
    /\ rec = << <<"a", COMMA>>, <<DQ>> >>
    /\ output_file = << <<DQ, "a", COMMA, DQ, COMMA, DQ, NL>> >>

\* C6: once a row has passed the selection of its column, --field is in
\* 1..n for that row; otherwise the run has failed with an index error and
\* nothing was converted or written for the row.
C6_OutOfRangeFails ==
    (pc \in {"convert", "write", "loop", "done", "failed"} /\ i >= 1
        /\ field_arg \notin 1..Len(csv_data[i]))
        => (pc = "failed" /\ err = "IndexError" /\ Len(output_file) = i - 1)

\* C7: no field the tokenizer returns is empty; an empty line and a line of
\* commas only give zero fields.
C7_NoEmptyField ==
    pc = "loop" =>
        /\ \A k \in 1..Len(csv_data[1]) : Len(csv_data[1][k]) >= 1
        /\ Chars(input_file[1]) \subseteq {COMMA} => csv_data[1] = <<>>

\* a line with two adjacent commas has been tokenized into two fields
C7_Witness ==
    /\ pc = "loop"
    /\ input_file[1] = <<"a", COMMA, COMMA, "a">>
    /\ csv_data[1] = << <<"a">>, <<"a">> >>

\* C8 as stated: line k+1 is not read before the output line of line k is
\* written.
C8_LineByLine == nread <= Len(output_file) + 1

\* C8 amended: every line is read and tokenized before the first row is
\* converted or written; after that row k+1 is not converted until the
\* output line of row k is written.
C8_ReadAllThenSequential ==
    /\ (nconverted > 0 \/ output_file # <<>> \/ i > 0)
          => nread = Len(input_file)
    /\ Len(output_file) <= nconverted
    /\ nconverted <= Len(output_file) + 1

\* the second row of two was converted after the first was written
C8_Witness ==
    /\ Len(input_file) = 2
    /\ nconverted = 2
    /\ Len(output_file) = 1
    /\ pc = "write"

\* the row the reader builds from line k
RowOf(k) == tokenize(input_file[k])
\* processing row k fails: the selected column is missing or its field is
\* not a number
RowFails(k) ==
    LET r == RowOf(k)
    IN  \/ ~IndexOk(Len(r), field_arg - 1)
        \/ ~IsFloat(r[IndexPos(Len(r), field_arg - 1)])
\* the first row that fails, one past the last row when none does
FirstFailing ==
    CHOOSE k \in 1..(Len(input_file) + 1) :
        /\ k <= Len(input_file) => RowFails(k)
        /\ \A j \in 1..(k - 1) : ~RowFails(j)
\* the line of row k: its selected field converted, then serialized
LineOf(k) ==
    LET r == RowOf(k)
        pos == IndexPos(Len(r), field_arg - 1)
    IN  writerow([r EXCEPT ![pos] =
            convert_currency(float(r[pos]), multiplier)])

\* C9: the sink always holds the lines of a prefix of the rows before the
\* first failing one, in order, each once; when the run stops it holds all
\* of them, and the run fails exactly when some row fails.
C9_FirstErrorWins ==
    LET first == FirstFailing
    IN  /\ Len(output_file) < first
        /\ \A k \in 1..Len(output_file) : output_file[k] = LineOf(k)
        /\ pc \in {"done", "failed"} => Len(output_file) = first - 1
        /\ pc = "failed" => (first <= Len(input_file) /\ i = first)
        /\ pc = "done" => first = Len(input_file) + 1

\* the second row of two failed after the first was written
C9_Witness ==
    /\ pc = "failed"
    /\ i = 2
    /\ Len(input_file) = 2
    /\ Len(output_file) = 1
    /\ err = "ValueError"

\* C10: a call of convert_currency leaves the LC_MONETARY locale and the
\* localeconv override entries as they were before the call.
C10_LocaleRestored ==
    [][(pc = "convert" /\ pc' = "write")
          => (lc_monetary' = lc_monetary /\ override' = override)]_vars

====
